---- MODULE Spec2Model ----
(***************************************************************************)
(* Bavarium Maintenance Planner (src/app.py): the submission repository    *)
(* and the manager review workflow over the tables template_submissions    *)
(* and template_reviews, called from concurrent Streamlit sessions.        *)
(*                                                                         *)
(* Every db_exec call opens its own connection, so each SQL statement is   *)
(* its own transaction: one statement is one atomic step, and the three    *)
(* statements of review_submission interleave with other sessions.         *)
(***************************************************************************)
EXTENDS Integers, Sequences, FiniteSets, TLC

(***************************************************************************)
(* Bounds of the model                                                     *)
(***************************************************************************)
\* number of submissions the planner creates at most
MaxSubs == 2
\* number of rows the two tables hold at most, together
MaxRows == 3
\* number of storage faults (exceptions of psycopg) that may strike in a run
MaxFaults == 1

(***************************************************************************)
(* Text: VINs and user names are sequences of characters, so that strip(), *)
(* upper() and lower() are computed character by character.  The token     *)
(* "sz" stands for U+00DF, whose upper case is the two letters "SS".       *)
(***************************************************************************)
Rep(c, n) == [i \in 1..n |-> c]

\* SQL NULL / Python None for a text value held as a character sequence
NullText == <<"<NULL>">>
\* SQL NULL / Python None for a text value held as a string
Null == "<NULL>"
\* SQL NULL for a timestamp; the clock starts at 1
NoTime == 0

IsSpace(c) == c = " "

RECURSIVE LStrip(_)
LStrip(s) == IF s # <<>> /\ IsSpace(Head(s)) THEN LStrip(Tail(s)) ELSE s

RECURSIVE RStrip(_)
RStrip(s) ==
  IF s # <<>> /\ IsSpace(s[Len(s)]) THEN RStrip(SubSeq(s, 1, Len(s) - 1)) ELSE s

\* str.strip()
Strip(s) == RStrip(LStrip(s))

UpperChar(c) ==
  CASE c = "a" -> <<"A">>
    [] c = "e" -> <<"E">>
    [] c = "r" -> <<"R">>
    [] c = "i" -> <<"I">>
    [] c = "n" -> <<"N">>
    [] c = "d" -> <<"D">>
    [] c = "y" -> <<"Y">>
    [] c = "sz" -> <<"S", "S">>
    [] OTHER -> <<c>>

LowerChar(c) ==
  CASE c = "A" -> <<"a">>
    [] c = "E" -> <<"e">>
    [] c = "R" -> <<"r">>
    [] c = "I" -> <<"i">>
    [] c = "N" -> <<"n">>
    [] c = "D" -> <<"d">>
    [] c = "Y" -> <<"y">>
    [] c = "S" -> <<"s">>
    [] OTHER -> <<c>>

RECURSIVE Upper(_)
\* str.upper()
Upper(s) == IF s = <<>> THEN <<>> ELSE UpperChar(Head(s)) \o Upper(Tail(s))

RECURSIVE Lower(_)
\* str.lower()
Lower(s) == IF s = <<>> THEN <<>> ELSE LowerChar(Head(s)) \o Lower(Tail(s))

\* (x or "") for a character sequence
OrEmptySeq(x) == IF x = NullText THEN <<>> ELSE x

\* (x or "") for a string
OrEmpty(x) == IF x = Null THEN "" ELSE x

\* normalize_vin
normalize_vin(v) == Upper(Strip(OrEmptySeq(v)))

(***************************************************************************)
(* Inputs                                                                  *)
(***************************************************************************)
\* st.secrets["users"]: the accounts, both given role = "manager"
Managers == { <<"a", "n", "d", "r", "e", "w">>, <<"e", "r", "i", "n">> }
\* an account without a role of its own: u.get("role", "shop")
ShopUsers == { <<"t", "e", "c", "h">> }
Users == Managers \cup ShopUsers

\* u.get("role", "shop") of the account
Role(u) == IF u \in Managers THEN "manager" ELSE "shop"

\* the browser sessions: s1 is logged in as andrew, s2 as erin
Sessions == {"s1", "s2"}
LoggedInAs == [s \in Sessions |-> IF s = "s1" THEN <<"a", "n", "d", "r", "e", "w">>
                                               ELSE <<"e", "r", "i", "n">>]
\* the sessions in which a plan is worked on; the others only review
Planners == {"s1"}

V17 == Rep("A", 17)

\* the VIN text a planner may have typed on the Vehicle screen: 17 letters,
\* 17 letters in lower case between blanks, 16 letters and U+00DF, 16 letters,
\* a blank and 16 letters, nothing
VinInputs ==
  { V17,
    <<" ">> \o Rep("a", 17) \o <<" ">>,
    Rep("A", 16) \o <<"sz">>,
    Rep("A", 16),
    <<" ">> \o Rep("A", 16),
    <<>> }

\* the VIN texts of the runs that go on to the review: 17 letters, 16 letters
PlanVins == { V17, Rep("A", 16) }

\* st.session_state.vehicle as the Vehicle screen stores it
Vehicle(vin_input) ==
  [vin |-> normalize_vin(vin_input), year |-> 2020, make |-> "BMW", model |-> "M3",
   engine |-> "", trans |-> "Automatic"]

\* the review actions of the three buttons
ValidActions == {"approve", "deny", "request_changes"}

\* what a reviewer sends: the button pressed and the Notes / Reason text
ReviewInputs ==
  { <<"approve", "">>, <<"deny", "n1">>, <<"request_changes", "n1">> }

\* what the Results screen sends: the edited bulk copy and the vehicle notes
ContentInputs == { <<"", "v1">> }

SubIds == 1..MaxSubs
ReviewIds == 1..MaxRows

(***************************************************************************)
(* State                                                                   *)
(***************************************************************************)
VARIABLES
  secrets_db_url,        \* "url" is in st.secrets["database"]
  psycopg_ok,            \* import psycopg succeeded (psycopg is not None)
  template_submissions,  \* table: submission_id -> row
  template_reviews,      \* table: review_id -> row
  now,                   \* the database clock, the value of now(): it has moved
                         \* on whenever a submission is created
  faults,                \* number of storage faults that have struck
  auth_user,             \* session -> st.session_state.auth_user
  last_db_save_msg,      \* session -> st.session_state.last_db_save_msg
  pc,                    \* session -> position of its running review_submission
  call,                  \* session -> locals of its running review_submission
  ret,                   \* what the latest repository call told its caller: the
                         \* message it returned, or the exception that left it
  today,                 \* date.today(), as <<year, month, day>>
  session_state          \* session -> the other fields of st.session_state

vars ==
  <<secrets_db_url, psycopg_ok, template_submissions, template_reviews, now, faults,
    auth_user, last_db_save_msg, pc, call, ret, today, session_state>>

NoCall == [submission_id |-> 0, action |-> Null, notes |-> Null,
           reviewer |-> NullText, new_state |-> Null, snapshot |-> <<>>]

NoRet == [op |-> "none", kind |-> "none", text |-> <<>>]

\* a value a repository function hands back to its caller: the leading glyph
\* (the check mark is written "ok", the cross "x") and the words after it
Returned(op, glyph, text) ==
  [op |-> op, kind |-> "returned", text |-> <<glyph>> \o text]

\* an exception that leaves the repository function
Raised(op) ==
  [op |-> op, kind |-> "raised", text |-> <<"OperationalError">>]

\* None where a number is expected (last_miles, last_submission_id is 0 below)
NoNumber == -1

\* None where a date is expected
NoDate == <<>>

\* the items of SERVICE_ITEMS the model follows
SERVICE_ITEMS == <<"Engine Oil", "Brake Fluid", "Cabin Filter">>

Items == {SERVICE_ITEMS[i] : i \in 1..Len(SERVICE_ITEMS)}

\* a dict with the keys "years" and "miles", each optional
Interval(years, miles) ==
  [k \in (IF years = NoNumber THEN {} ELSE {"years"})
          \cup (IF miles = NoNumber THEN {} ELSE {"miles"})
     |-> IF k = "years" THEN years ELSE miles]

OilMiles == 5000
OilYears == 1
BrakeFluidYears == 2

DEFAULT_INTERVALS ==
  [i \in {"Engine Oil", "Brake Fluid"} |->
     IF i = "Engine Oil" THEN Interval(OilYears, OilMiles)
     ELSE Interval(BrakeFluidYears, NoNumber)]

DueSoonMilesDefault == 5000
DueSoonMonthsDefault == 6
OilDueSoonMiles == 1500

\* st.session_state.vehicle = {}
EmptyVehicle == [empty |-> TRUE]

\* st.session_state.results = None
NoResults == [empty |-> TRUE]

\* the fields ss_init gives a new session
ss_init ==
  [step |-> "vehicle",
   vehicle |-> EmptyVehicle,
   intervals |-> <<>>,
   history |-> <<>>,
   results |-> NoResults,
   due_soon_miles_default |-> DueSoonMilesDefault,
   due_soon_months_default |-> DueSoonMonthsDefault,
   due_soon_miles_by_item |->
     [i \in Items |-> IF i = "Engine Oil" THEN OilDueSoonMiles ELSE DueSoonMilesDefault],
   due_soon_months_by_item |-> [i \in Items |-> DueSoonMonthsDefault],
   bulk_bullets |-> [due_now |-> "*", due_soon |-> "?", ok |-> "-", na |-> "x"],
   last_submission_id |-> 0]

\* the day the runs of the review workflow take place
ReviewDay == <<2024, 5, 1>>

Init ==
  /\ today = ReviewDay
  /\ session_state = [s \in Sessions |-> ss_init]
  /\ secrets_db_url \in BOOLEAN
  /\ psycopg_ok \in BOOLEAN
  /\ template_submissions = <<>>
  /\ template_reviews = <<>>
  /\ now = 1
  /\ faults = 0
  /\ auth_user = LoggedInAs
  /\ last_db_save_msg = [s \in Sessions |-> Null]
  /\ pc = [s \in Sessions |-> "idle"]
  /\ call = [s \in Sessions |-> NoCall]
  /\ ret = NoRet

db_ready == secrets_db_url /\ psycopg_ok

\* whether a storage fault can strike the statement about to run
Faults == IF faults < MaxFaults THEN BOOLEAN ELSE {FALSE}

\* what no operation of the program assigns
env == <<secrets_db_url, psycopg_ok, auth_user, today>>

\* a role check that lets every logged-in user through
is_managerAnyUser(s) == auth_user[s] # NullText

is_manager(s) == Role(auth_user[s]) = "manager"

\* an identifier generator that hands out the same identifier every time
uuid4Fixed(pool, table) == {k \in pool : \A j \in pool : k <= j}

\* uuid.uuid4(): an identifier no row of the table carries yet; identifiers
\* are opaque, so the least unused one of the pool stands for it
uuid4(pool, table) ==
  LET free == pool \ DOMAIN table
  IN {k \in free : \A j \in free : k <= j}

\* the rows of both tables
RowCount ==
  Cardinality(DOMAIN template_submissions) + Cardinality(DOMAIN template_reviews)

\* an insert that drops the rows the table had
InsertRowOnly(table, id, row) ==
  [k \in {id} |-> row]

\* the table with one more row
InsertRow(table, id, row) ==
  [k \in DOMAIN table \cup {id} |-> IF k = id THEN row ELSE table[k]]

(***************************************************************************)
(* save_submission_for_review                                              *)
(***************************************************************************)
\* values of the columns the INSERT does not name
SubmissionDefaults ==
  [bulk_copy |-> Null, vehicle_notes |-> Null, created_at |-> now,
   updated_at |-> NoTime, reviewed_at |-> NoTime, reviewed_by |-> NullText,
   review_action |-> Null, review_notes |-> Null]

\* the row of INSERT INTO template_submissions
NewSubmission(user, vin, vehicle) ==
  [created_by |-> user, vin |-> vin, year |-> vehicle.year,
   make |-> vehicle.make, model |-> vehicle.model,
   engine_raw |-> OrEmpty(vehicle.engine), trans_raw |-> OrEmpty(vehicle.trans),
   manager_state |-> "pending"]
  @@ SubmissionDefaults

MsgVinRequired == "Review NOT saved: full 17-character VIN required."
MsgNoDatabase == "Review NOT saved: missing [database].url in Streamlit Secrets."
MsgNoPsycopg == "Review NOT saved: psycopg not installed (check requirements.txt)."
MsgSaved == "[ok] Saved for manager review (pending)."
MsgNotSavedFault == "[x] Review NOT saved: OperationalError"

\* len(vin) != 17 is the only check of the VIN
\* a length check that lets longer texts through
VinAcceptedAtLeast(vin) == Len(vin) >= 17

\* line 538 of the source: len(vin) != 17 refuses the save
VinAccepted(vin) == Len(vin) = 17

save_submission_for_review(s, vehicle, submission_id, fault) ==
  LET vin == Upper(Strip(OrEmptySeq(vehicle.vin)))
      user == Lower(Strip(OrEmptySeq(auth_user[s])))
  IN
  /\ pc[s] = "idle"
  /\ UNCHANGED <<env, template_reviews, pc, call, ret>>
  /\ IF ~VinAccepted(vin)
       THEN /\ last_db_save_msg' = [last_db_save_msg EXCEPT ![s] = MsgVinRequired]
            /\ UNCHANGED <<template_submissions, now, faults>>
     ELSE IF ~secrets_db_url
       THEN /\ last_db_save_msg' = [last_db_save_msg EXCEPT ![s] = MsgNoDatabase]
            /\ UNCHANGED <<template_submissions, now, faults>>
     ELSE IF ~psycopg_ok
       THEN /\ last_db_save_msg' = [last_db_save_msg EXCEPT ![s] = MsgNoPsycopg]
            /\ UNCHANGED <<template_submissions, now, faults>>
     ELSE IF fault
       THEN /\ last_db_save_msg' = [last_db_save_msg EXCEPT ![s] = MsgNotSavedFault]
            /\ faults' = faults + 1
            /\ UNCHANGED <<template_submissions, now>>
     ELSE /\ RowCount < MaxRows
          /\ submission_id \in uuid4(SubIds, template_submissions)
          /\ UNCHANGED faults
          /\ template_submissions' =
               InsertRow(template_submissions, submission_id,
                         NewSubmission(user, vin, vehicle))
          /\ now' = now + 1
          /\ last_db_save_msg' = [last_db_save_msg EXCEPT ![s] = MsgSaved]

\* History screen: the plan of the session's vehicle is saved for review
SaveVehicle(vins) ==
  \E s \in Planners, v \in vins, id \in SubIds, fault \in Faults :
    save_submission_for_review(s, Vehicle(v), id, fault)

SaveSubmission == SaveVehicle(PlanVins) /\ UNCHANGED session_state

\* the same, for every VIN text of VinInputs
SaveAnyVin == SaveVehicle(VinInputs) /\ UNCHANGED session_state

(***************************************************************************)
(* update_submission_content                                               *)
(***************************************************************************)
MsgDbNotReady == <<"DB not ready.">>
MsgNoSubmissionId == <<"No submission_id found.">>
MsgUpdated == <<"Saved updates to submission.">>
MsgUpdateFailed == <<"Update failed: OperationalError">>

\* a content update whose UPDATE has lost its WHERE clause
UpdateContentRowsEveryRow(table, id, bulk_copy, vehicle_notes) ==
  [k \in DOMAIN table |->
     [table[k] EXCEPT !.bulk_copy = bulk_copy,
                      !.vehicle_notes = vehicle_notes,
                      !.updated_at = now]]

\* a content update that also puts the submission back into the queue
UpdateContentRowsReopening(table, id, bulk_copy, vehicle_notes) ==
  [k \in DOMAIN table |->
     IF k = id
       THEN [table[k] EXCEPT !.bulk_copy = bulk_copy,
                             !.vehicle_notes = vehicle_notes,
                             !.manager_state = "pending",
                             !.updated_at = now]
       ELSE table[k]]

\* UPDATE template_submissions SET bulk_copy, vehicle_notes, updated_at WHERE submission_id = id
UpdateContentRows(table, id, bulk_copy, vehicle_notes) ==
  [k \in DOMAIN table |->
     IF k = id
       THEN [table[k] EXCEPT !.bulk_copy = bulk_copy,
                             !.vehicle_notes = vehicle_notes,
                             !.updated_at = now]
       ELSE table[k]]

\* submission_id 0 stands for the None of a session that has saved nothing;
\* the function is modelled for every submission_id a caller may hold
update_submission_content(s, submission_id, bulk_copy, vehicle_notes, fault) ==
  /\ pc[s] = "idle"
  /\ UNCHANGED <<env, template_reviews, last_db_save_msg, pc, call>>
  /\ IF ~db_ready
       THEN /\ ret' = Returned("update", "x", MsgDbNotReady)
            /\ UNCHANGED <<template_submissions, now, faults>>
     ELSE IF submission_id = 0
       THEN /\ ret' = Returned("update", "x", MsgNoSubmissionId)
            /\ UNCHANGED <<template_submissions, now, faults>>
     ELSE IF fault
       THEN /\ ret' = Returned("update", "x", MsgUpdateFailed)
            /\ faults' = faults + 1
            /\ UNCHANGED <<template_submissions, now>>
     ELSE /\ template_submissions' =
               UpdateContentRows(template_submissions, submission_id,
                                 OrEmpty(bulk_copy), OrEmpty(vehicle_notes))
          /\ UNCHANGED <<now, faults>>
          /\ ret' = Returned("update", "ok", MsgUpdated)

\* Results screen, "Update Saved Submission": shown to a manager only
UpdateContent ==
  \E s \in Planners, id \in {0} \cup SubIds, c \in ContentInputs, fault \in Faults :
    /\ is_manager(s)
    /\ update_submission_content(s, id, c[1], c[2], fault)
    /\ UNCHANGED session_state

(***************************************************************************)
(* fetch_submissions_by_state / fetch_my_recent_submissions                *)
(***************************************************************************)
\* LIMIT of both queries
FetchLimit == 50

RECURSIVE NewestFirst(_, _)
\* ORDER BY created_at DESC over the rows with the ids in S
NewestFirst(table, S) ==
  IF S = {} THEN <<>>
  ELSE LET top == CHOOSE k \in S :
                    \A j \in S : \/ table[j].created_at < table[k].created_at
                                 \/ table[j].created_at = table[k].created_at /\ j >= k
       IN <<top>> \o NewestFirst(table, S \ {top})

\* LIMIT n
Limit(rows, n) == IF Len(rows) <= n THEN rows ELSE SubSeq(rows, 1, n)

SelectByState(table, state) ==
  Limit(NewestFirst(table, {k \in DOMAIN table : table[k].manager_state = state}),
        FetchLimit)

SelectByCreator(table, u) ==
  Limit(NewestFirst(table, {k \in DOMAIN table : table[k].created_by = u}),
        FetchLimit)

\* the rows either query hands back, or the fault that leaves it: there is
\* no try/except around db_exec
FetchOutcome(rows, fault) ==
  IF ~db_ready THEN [kind |-> "returned", rows |-> <<>>]
  ELSE IF fault THEN [kind |-> "raised", rows |-> <<>>]
  ELSE [kind |-> "returned", rows |-> rows]

fetch_submissions_by_state(state, fault) ==
  FetchOutcome(SelectByState(template_submissions, state), fault)

fetch_my_recent_submissions(created_by, fault) ==
  FetchOutcome(SelectByCreator(template_submissions, created_by), fault)

IsIn(x, seq) == \E i \in 1..Len(seq) : seq[i] = x

\* Manager Review screen, one tab: managers only, database ready.  The run
\* fetches the rows of the tab and renders their cards; in the Pending Queue
\* (allow_actions) the button that was clicked, if its card is still rendered,
\* calls review_submission with the card's submission_id.
RenderTab(s, out, allow_actions, clicked) ==
  /\ pc[s] = "idle"
  /\ is_manager(s)
  /\ db_ready
  /\ ret' = IF out.kind = "raised" THEN Raised("fetch") ELSE NoRet
  /\ faults' = IF out.kind = "raised" THEN faults + 1 ELSE faults
  /\ UNCHANGED <<env, template_submissions, template_reviews, now, last_db_save_msg>>
  /\ IF /\ allow_actions
        /\ out.kind = "returned"
        /\ clicked # <<>>
        /\ IsIn(clicked[1], out.rows)
       THEN /\ pc' = [pc EXCEPT ![s] = "call"]
            /\ call' = [call EXCEPT ![s] =
                          [NoCall EXCEPT !.submission_id = clicked[1],
                                         !.action = clicked[2],
                                         !.notes = clicked[3]]]
       ELSE UNCHANGED <<pc, call>>

\* the clicks a run can be started by: none, or a button of a card
Clicks == {<<>>} \cup {<<id, r[1], r[2]>> : id \in SubIds, r \in ReviewInputs}

PendingQueue ==
  \E s \in Sessions, clicked \in Clicks, fault \in Faults :
    /\ RenderTab(s, fetch_submissions_by_state("pending", fault), TRUE, clicked)
    /\ UNCHANGED session_state

OtherTabs ==
  \E s \in Sessions, state \in {"approved", "denied"}, fault \in Faults :
    /\ RenderTab(s, fetch_submissions_by_state(state, fault), FALSE, <<>>)
    /\ UNCHANGED session_state

MySubmissions ==
  \E s \in Sessions, fault \in Faults :
    /\ RenderTab(s, fetch_my_recent_submissions(Lower(Strip(OrEmptySeq(auth_user[s]))),
                                                fault),
                 FALSE, <<>>)
    /\ UNCHANGED session_state

(***************************************************************************)
(* review_submission                                                       *)
(***************************************************************************)
\* {"approve": "approved", ...}.get(action)
NewState(action) ==
  CASE action = "approve" -> "approved"
    [] action = "deny" -> "denied"
    [] action = "request_changes" -> "changes_requested"
    [] OTHER -> Null

\* new_state.upper()
UpperState(state) ==
  CASE state = "approved" -> "APPROVED"
    [] state = "denied" -> "DENIED"
    [] state = "changes_requested" -> "CHANGES_REQUESTED"
    [] OTHER -> state

MsgInvalidAction == <<"Invalid review action.">>
MsgReviewFailed == <<"Review failed: OperationalError">>

\* f"{new_state.upper()}." after the check mark
MsgReviewed(new_state) == <<UpperState(new_state), ".">>

\* snapshot = {}
EmptySnapshot == [empty |-> TRUE]

\* SELECT ... FROM template_submissions WHERE submission_id = id, zipped with
\* the column names
Snapshot(table, id) ==
  IF id \in DOMAIN table
    THEN LET r == table[id]
         IN [bulk_copy |-> r.bulk_copy, vehicle_notes |-> r.vehicle_notes,
             vin |-> r.vin, year |-> r.year, make |-> r.make, model |-> r.model,
             created_by |-> r.created_by, created_at |-> r.created_at,
             manager_state |-> r.manager_state]
    ELSE EmptySnapshot

\* a text value in JSON: None becomes null
JsonText(x) == IF x = Null THEN "null" ELSE x

\* json.dumps(snapshot), as the jsonb column keeps it
json_dumps(snap) ==
  IF snap = EmptySnapshot THEN snap
  ELSE [snap EXCEPT !.bulk_copy = JsonText(@), !.vehicle_notes = JsonText(@)]

\* step 1: entry checks and the snapshot read
ReviewSnapshot(s, fault) ==
  LET submission_id == call[s].submission_id
      action == call[s].action
      notes == call[s].notes
      reviewer == Lower(Strip(OrEmptySeq(auth_user[s])))
      new_state == NewState(action)
  IN
  /\ pc[s] = "call"
  /\ UNCHANGED <<env, template_submissions, template_reviews, now, last_db_save_msg>>
  /\ IF ~db_ready
       THEN /\ ret' = Returned("review", "x", MsgDbNotReady)
            /\ pc' = [pc EXCEPT ![s] = "idle"]
            /\ call' = [call EXCEPT ![s] = NoCall]
            /\ UNCHANGED faults
     ELSE IF new_state = Null
       THEN /\ ret' = Returned("review", "x", MsgInvalidAction)
            /\ pc' = [pc EXCEPT ![s] = "idle"]
            /\ call' = [call EXCEPT ![s] = NoCall]
            /\ UNCHANGED faults
     ELSE IF fault
       THEN /\ ret' = Returned("review", "x", MsgReviewFailed)
            /\ pc' = [pc EXCEPT ![s] = "idle"]
            /\ call' = [call EXCEPT ![s] = NoCall]
            /\ faults' = faults + 1
     ELSE /\ UNCHANGED faults
          /\ call' = [call EXCEPT ![s] =
                        [submission_id |-> submission_id, action |-> action,
                         notes |-> notes, reviewer |-> reviewer,
                         new_state |-> new_state,
                         snapshot |-> Snapshot(template_submissions, submission_id)]]
          /\ pc' = [pc EXCEPT ![s] = "insert"]
          /\ UNCHANGED ret

\* a review-log row that loses the reviewer's notes
NewReviewNoNotes(c) ==
  [submission_id |-> c.submission_id, reviewed_by |-> c.reviewer,
   action |-> c.action, notes |-> "",
   snapshot |-> json_dumps(c.snapshot), created_at |-> now]

\* a review-log row that does not name the reviewer
NewReviewAnonymous(c) ==
  [submission_id |-> c.submission_id, reviewed_by |-> NullText,
   action |-> c.action, notes |-> OrEmpty(c.notes),
   snapshot |-> json_dumps(c.snapshot), created_at |-> now]

\* the row of INSERT INTO template_reviews
NewReview(c) ==
  [submission_id |-> c.submission_id, reviewed_by |-> c.reviewer,
   action |-> c.action, notes |-> OrEmpty(c.notes),
   snapshot |-> json_dumps(c.snapshot), created_at |-> now]

\* step 2: the review-log insert; a fault here is any exception of the step
ReviewInsert(s, review_id, fault) ==
  /\ pc[s] = "insert"
  /\ UNCHANGED <<env, template_submissions, last_db_save_msg>>
  /\ IF fault
       THEN /\ ret' = Returned("review", "x", MsgReviewFailed)
            /\ pc' = [pc EXCEPT ![s] = "idle"]
            /\ call' = [call EXCEPT ![s] = NoCall]
            /\ faults' = faults + 1
            /\ UNCHANGED <<template_reviews, now>>
     ELSE /\ RowCount < MaxRows
          /\ review_id \in uuid4(ReviewIds, template_reviews)
          /\ template_reviews' = InsertRow(template_reviews, review_id, NewReview(call[s]))
          /\ UNCHANGED <<now, faults>>
          /\ pc' = [pc EXCEPT ![s] = "update"]
          /\ UNCHANGED <<call, ret>>

\* a state update without the condition on manager_state
UpdateStateRowsAnyState(table, c) ==
  [k \in DOMAIN table |->
     IF k = c.submission_id
       THEN [table[k] EXCEPT !.manager_state = c.new_state,
                             !.reviewed_at = now,
                             !.reviewed_by = c.reviewer,
                             !.review_action = c.action,
                             !.review_notes = OrEmpty(c.notes),
                             !.updated_at = now]
       ELSE table[k]]

\* a state update that leaves reviewed_at as it was
UpdateStateRowsNoTime(table, c) ==
  [k \in DOMAIN table |->
     IF k = c.submission_id /\ table[k].manager_state = "pending"
       THEN [table[k] EXCEPT !.manager_state = c.new_state,
                             !.reviewed_by = c.reviewer,
                             !.review_action = c.action,
                             !.review_notes = OrEmpty(c.notes),
                             !.updated_at = now]
       ELSE table[k]]

\* UPDATE template_submissions SET manager_state, reviewed_* ...
\* WHERE submission_id = id AND manager_state = 'pending'
UpdateStateRows(table, c) ==
  [k \in DOMAIN table |->
     IF k = c.submission_id /\ table[k].manager_state = "pending"
       THEN [table[k] EXCEPT !.manager_state = c.new_state,
                             !.reviewed_at = now,
                             !.reviewed_by = c.reviewer,
                             !.review_action = c.action,
                             !.review_notes = OrEmpty(c.notes),
                             !.updated_at = now]
       ELSE table[k]]

\* step 3: the conditional state update and the return
ReviewUpdate(s, fault) ==
  /\ pc[s] = "update"
  /\ UNCHANGED <<env, template_reviews, last_db_save_msg>>
  /\ pc' = [pc EXCEPT ![s] = "idle"]
  /\ call' = [call EXCEPT ![s] = NoCall]
  /\ IF fault
       THEN /\ ret' = Returned("review", "x", MsgReviewFailed)
            /\ faults' = faults + 1
            /\ UNCHANGED <<template_submissions, now>>
     ELSE /\ template_submissions' = UpdateStateRows(template_submissions, call[s])
          /\ UNCHANGED <<now, faults>>
          /\ ret' = Returned("review", "ok", MsgReviewed(call[s].new_state))

ReviewBegin ==
  \E s \in Sessions, fault \in Faults :
    ReviewSnapshot(s, fault) /\ UNCHANGED session_state

ReviewLog ==
  \E s \in Sessions, rid \in ReviewIds, fault \in Faults :
    ReviewInsert(s, rid, fault) /\ UNCHANGED session_state

ReviewFinish ==
  \E s \in Sessions, fault \in Faults :
    ReviewUpdate(s, fault) /\ UNCHANGED session_state

(***************************************************************************)
(* Dates and evaluate_item                                                 *)
(***************************************************************************)
\* a <= b for two dates <<year, month, day>>
DateLE(a, b) ==
  \/ a[1] < b[1]
  \/ a[1] = b[1] /\ a[2] < b[2]
  \/ a[1] = b[1] /\ a[2] = b[2] /\ a[3] <= b[3]

\* the years date.replace accepts for 29 February
IsLeap(y) == (y % 4 = 0 /\ y % 100 # 0) \/ y % 400 = 0

\* d.replace(year = d.year + years), 28 February where that day does not exist
add_years(d, years) ==
  IF d[2] = 2 /\ d[3] = 29 /\ ~IsLeap(d[1] + years)
    THEN <<d[1] + years, 2, 28>>
    ELSE <<d[1] + years, d[2], d[3]>>

months_between(d1, d2) == (d2[1] - d1[1]) * 12 + (d2[2] - d1[2])

\* dict.get(key): <<>> stands for the None of a missing interval
Get(dict, key) == IF key \in DOMAIN dict THEN dict[key] ELSE <<>>

\* due_soon_miles_by_item.get(item, due_soon_miles_default) of the session state ss
get_due_soon_miles(ss, item) ==
  IF item \in DOMAIN ss.due_soon_miles_by_item
    THEN ss.due_soon_miles_by_item[item]
    ELSE ss.due_soon_miles_default

get_due_soon_months(ss, item) ==
  IF item \in DOMAIN ss.due_soon_months_by_item
    THEN ss.due_soon_months_by_item[item]
    ELSE ss.due_soon_months_default

\* strftime('%m/%Y')
MonthYear(d) == <<d[2], d[1]>>

fmt_last_done(hist, vehicle) ==
  IF hist.not_equipped THEN <<"not equipped / not serviceable">>
  ELSE IF hist.known
    THEN LET ld == hist.last_date
             lm == hist.last_miles
         IN IF ld # NoDate /\ lm # NoNumber /\ lm > 0
              THEN <<"last", MonthYear(ld), "@", lm, "mi">>
            ELSE IF ld # NoDate THEN <<"last", MonthYear(ld)>>
            ELSE IF lm # NoNumber /\ lm > 0 THEN <<"last @", lm, "mi">>
            ELSE <<"history known (missing)">>
  ELSE IF vehicle.production_date # NoDate
    THEN <<"no history (baseline", MonthYear(vehicle.production_date), ")">>
    ELSE <<"no history (baseline unknown)">>

interval_phrase_short(iv) ==
  LET parts == (IF "years" \in DOMAIN iv THEN <<<<"every", iv["years"], "yr">>>> ELSE <<>>)
               \o (IF "miles" \in DOMAIN iv THEN <<<<"every", iv["miles"], "mi">>>> ELSE <<>>)
  IN IF parts # <<>> THEN parts ELSE <<"interval not set">>

ThousandK == 1000
OilKMax == 15000

interval_phrase_bulk(iv, item) ==
  LET parts ==
        (IF "years" \in DOMAIN iv THEN <<<<iv["years"], "yr">>>> ELSE <<>>)
        \o (IF "miles" \in DOMAIN iv
              THEN IF item = "Engine Oil" /\ iv["miles"] % ThousandK = 0
                      /\ iv["miles"] <= OilKMax
                     THEN <<<<iv["miles"] \div ThousandK, "K">>>>
                     ELSE <<<<iv["miles"], "mi">>>>
              ELSE <<>>)
  IN IF parts = <<>> THEN <<"interval ?">>
     ELSE IF item = "Engine Oil" THEN <<"DUE">> \o parts
     ELSE <<"interval">> \o parts

\* a miles part with strict comparisons
MilesEvaluationStrict(iv, base_miles, current_miles, due_soon_miles) ==
  IF "miles" \in DOMAIN iv /\ base_miles # NoNumber /\ base_miles > 0
    THEN LET due_at == base_miles + iv["miles"]
             remaining == due_at - current_miles
             miles_due == current_miles > due_at
         IN [ran |-> TRUE, due_at |-> due_at, remaining |-> remaining,
             miles_due |-> miles_due,
             miles_soon |-> (~miles_due) /\ remaining < due_soon_miles]
    ELSE [ran |-> FALSE, due_at |-> 0, remaining |-> 0,
          miles_due |-> FALSE, miles_soon |-> FALSE]

\* a miles part whose due-soon comparison is turned round
MilesEvaluationTurned(iv, base_miles, current_miles, due_soon_miles) ==
  IF "miles" \in DOMAIN iv /\ base_miles # NoNumber /\ base_miles > 0
    THEN LET due_at == base_miles + iv["miles"]
             remaining == due_at - current_miles
             miles_due == current_miles >= due_at
         IN [ran |-> TRUE, due_at |-> due_at, remaining |-> remaining,
             miles_due |-> miles_due,
             miles_soon |-> (~miles_due) /\ remaining >= due_soon_miles]
    ELSE [ran |-> FALSE, due_at |-> 0, remaining |-> 0,
          miles_due |-> FALSE, miles_soon |-> FALSE]

\* a miles part that is due as soon as the due-soon window is entered
MilesEvaluationDueInWindow(iv, base_miles, current_miles, due_soon_miles) ==
  IF "miles" \in DOMAIN iv /\ base_miles # NoNumber /\ base_miles > 0
    THEN LET due_at == base_miles + iv["miles"]
             remaining == due_at - current_miles
             miles_due == remaining <= due_soon_miles
         IN [ran |-> TRUE, due_at |-> due_at, remaining |-> remaining,
             miles_due |-> miles_due,
             miles_soon |-> (~miles_due) /\ remaining <= due_soon_miles]
    ELSE [ran |-> FALSE, due_at |-> 0, remaining |-> 0,
          miles_due |-> FALSE, miles_soon |-> FALSE]

\* a miles part that runs from a baseline of 0 as well
MilesEvaluationAnyBaseline(iv, base_miles, current_miles, due_soon_miles) ==
  IF "miles" \in DOMAIN iv /\ base_miles # NoNumber
    THEN LET due_at == base_miles + iv["miles"]
             remaining == due_at - current_miles
             miles_due == current_miles >= due_at
         IN [ran |-> TRUE, due_at |-> due_at, remaining |-> remaining,
             miles_due |-> miles_due,
             miles_soon |-> (~miles_due) /\ remaining <= due_soon_miles]
    ELSE [ran |-> FALSE, due_at |-> 0, remaining |-> 0,
          miles_due |-> FALSE, miles_soon |-> FALSE]

\* the miles part of evaluate_item: whether it runs, miles_due, miles_soon
MilesEvaluation(iv, base_miles, current_miles, due_soon_miles) ==
  IF "miles" \in DOMAIN iv /\ base_miles # NoNumber /\ base_miles > 0
    THEN LET due_at == base_miles + iv["miles"]
             remaining == due_at - current_miles
             miles_due == current_miles >= due_at
         IN [ran |-> TRUE, due_at |-> due_at, remaining |-> remaining,
             miles_due |-> miles_due,
             miles_soon |-> (~miles_due) /\ remaining <= due_soon_miles]
    ELSE [ran |-> FALSE, due_at |-> 0, remaining |-> 0,
          miles_due |-> FALSE, miles_soon |-> FALSE]

\* a time part that is due only after the due date
TimeEvaluationAfter(iv, base_date, day, due_soon_months) ==
  IF "years" \in DOMAIN iv /\ base_date # NoDate
    THEN LET due_date == add_years(base_date, iv["years"])
             months_to_due == months_between(day, due_date)
             time_due == DateLE(due_date, day) /\ due_date # day
         IN [ran |-> TRUE, due_date |-> due_date, months_to_due |-> months_to_due,
             time_due |-> time_due,
             time_soon |-> (~time_due) /\ months_to_due <= due_soon_months]
    ELSE [ran |-> FALSE, due_date |-> NoDate, months_to_due |-> 0,
          time_due |-> FALSE, time_soon |-> FALSE]

\* the time part of evaluate_item: whether it runs, time_due, time_soon
TimeEvaluation(iv, base_date, day, due_soon_months) ==
  IF "years" \in DOMAIN iv /\ base_date # NoDate
    THEN LET due_date == add_years(base_date, iv["years"])
             months_to_due == months_between(day, due_date)
             time_due == DateLE(due_date, day)
         IN [ran |-> TRUE, due_date |-> due_date, months_to_due |-> months_to_due,
             time_due |-> time_due,
             time_soon |-> (~time_due) /\ months_to_due <= due_soon_months]
    ELSE [ran |-> FALSE, due_date |-> NoDate, months_to_due |-> 0,
          time_due |-> FALSE, time_soon |-> FALSE]

\* a status that is due only when both dimensions are
StatusBoth(miles_due, time_due, miles_soon, time_soon) ==
  IF miles_due /\ time_due THEN "due_now"
  ELSE IF miles_soon \/ time_soon \/ miles_due \/ time_due THEN "due_soon"
  ELSE "ok"

\* "OR logic status"
Status(miles_due, time_due, miles_soon, time_soon) ==
  IF miles_due \/ time_due THEN "due_now"
  ELSE IF miles_soon \/ time_soon THEN "due_soon"
  ELSE "ok"

StatusText(status) ==
  CASE status = "due_now" -> "DUE NOW"
    [] status = "due_soon" -> "DUE SOON"
    [] status = "ok" -> "OK"

\* a not-equipped result that still carries a bulk line
NotEquippedResultWithBulk(item) ==
  LET line == <<item, "not equipped / not serviceable">>
  IN [status |-> "na", concise_line |-> line, verbose_line |-> line, bulk_line |-> line]

\* the return of the "N/A" branch
NotEquippedResult(item) ==
  LET line == <<item, "not equipped / not serviceable">>
  IN [status |-> "na", concise_line |-> line, verbose_line |-> line, bulk_line |-> <<>>]

\* a missing interval that is reported as not due
IntervalNotSetResultOk(item, last_done) ==
  LET line == <<item, last_done, "interval not set">>
  IN [status |-> "ok", concise_line |-> line, verbose_line |-> line, bulk_line |-> <<>>]

\* the return of the "Missing interval" branch
IntervalNotSetResult(item, last_done) ==
  LET line == <<item, last_done, "interval not set">>
  IN [status |-> "na", concise_line |-> line, verbose_line |-> line, bulk_line |-> <<>>]

\* evaluate_item, read from the session state ss on the day `day`: the tuple
\* (status, concise_line, verbose_line, bulk_line) as a record; a line is the
\* sequence of its parts, the empty bulk line is <<>>
evaluate(ss, day, item, vehicle, hist) ==
  LET iv == Get(ss.intervals, item)
      current_miles == vehicle.current_miles
      due_soon_miles == get_due_soon_miles(ss, item)
      due_soon_months == get_due_soon_months(ss, item)
      base_miles == IF hist.known THEN hist.last_miles ELSE 0
      base_date == IF hist.known THEN hist.last_date ELSE vehicle.production_date
      serviced_today == hist.performed_this_visit
  IN IF hist.not_equipped THEN NotEquippedResult(item)
     ELSE IF DOMAIN iv = {} THEN IntervalNotSetResult(item, fmt_last_done(hist, vehicle))
     ELSE
       LET last_done == IF serviced_today THEN <<"SCV'D TODAY">>
                        ELSE fmt_last_done(hist, vehicle)
           m == MilesEvaluation(iv, base_miles, current_miles, due_soon_miles)
           t == TimeEvaluation(iv, base_date, day, due_soon_months)
           status == Status(m.miles_due, t.time_due, m.miles_soon, t.time_soon)
           next_miles == IF ~m.ran THEN <<>>
                         ELSE IF m.remaining >= 0 THEN <<<<"next", m.due_at, "mi">>>>
                         ELSE <<<<"due was", m.due_at, "mi">>>>
           next_time == IF ~t.ran THEN <<>>
                        ELSE IF t.months_to_due >= 0
                          THEN <<<<"next", MonthYear(t.due_date)>>>>
                        ELSE <<<<"due was", MonthYear(t.due_date)>>>>
           concise_next == IF next_miles \o next_time # <<>>
                             THEN next_miles \o next_time ELSE <<"next unknown">>
           verbose_miles == IF ~m.ran THEN <<>>
                            ELSE <<<<"miles due @", m.due_at, m.remaining>>>>
           verbose_time == IF ~t.ran THEN <<>>
                           ELSE <<<<"time due", MonthYear(t.due_date), t.months_to_due>>>>
           verbose_next == IF verbose_miles \o verbose_time # <<>>
                             THEN verbose_miles \o verbose_time ELSE <<"next unknown">>
       IN [status |-> status,
           concise_line |-> <<item, last_done, interval_phrase_short(iv), concise_next>>,
           verbose_line |-> <<item, last_done, interval_phrase_short(iv), verbose_next>>,
           bulk_line |-> <<ss.bulk_bullets[status], item, StatusText(status), last_done,
                           interval_phrase_bulk(iv, item)>>]

\* evaluate_item as session s calls it
evaluate_item(s, item, vehicle, hist) ==
  evaluate(session_state[s], today, item, vehicle, hist)

(***************************************************************************)
(* Login, sidebar and screens                                              *)
(***************************************************************************)
\* the tables, the clock and what the repository calls leave behind
repo ==
  <<template_submissions, template_reviews, now, faults, last_db_save_msg, pc, call, ret>>

\* st.session_state.auth_ok
auth_ok(s) == auth_user[s] # NullText

\* the account a session's user logs in with
Accounts == [s \in Sessions |-> IF s = "s1" THEN <<"a", "n", "d", "r", "e", "w">>
                                             ELSE <<"t", "e", "c", "h">>]

\* what is typed into the Username field: the account name as it is, or in
\* capitals between blanks
Typed(u) == { u, <<" ">> \o Upper(u) \o <<" ">> }

\* session_state with the fields of session s replaced
WithSession(s, fields) == [session_state EXCEPT ![s] = fields @@ session_state[s]]

\* require_login, the form: a known user name with its password
Login(s, typed) ==
  LET username == Lower(Strip(typed))
  IN /\ ~auth_ok(s)
     /\ username \in Users
     /\ auth_user' = [auth_user EXCEPT ![s] = username]
     /\ UNCHANGED <<secrets_db_url, psycopg_ok, today, session_state, repo>>

\* require_login, the Logout button
Logout(s) ==
  /\ auth_ok(s)
  /\ pc[s] = "idle"
  /\ auth_user' = [auth_user EXCEPT ![s] = NullText]
  /\ UNCHANGED <<secrets_db_url, psycopg_ok, today, session_state, repo>>

\* the buttons of the sidebar
SidebarButtons ==
  {"vehicle", "intervals", "history", "results", "manager_review", "settings"}

\* a sidebar button that moves the session to another screen
Sidebar(s, button) ==
  LET ss == session_state[s]
  IN /\ auth_ok(s)
     /\ pc[s] = "idle"
     /\ button \in {"intervals", "history"} => ss.vehicle # EmptyVehicle
     /\ button = "results" => ss.results # NoResults
     /\ session_state' = WithSession(s, [step |-> button])
     /\ UNCHANGED <<env, repo>>

\* the mileage and the production date typed on the Vehicle screen
VehicleOf(vin_input, current_miles, production_date) ==
  [current_miles |-> current_miles, production_date |-> production_date]
  @@ Vehicle(vin_input)

\* the history every item starts with
NewHistory ==
  [known |-> TRUE, last_miles |-> NoNumber, last_date |-> NoDate,
   not_equipped |-> FALSE, performed_this_visit |-> FALSE]

\* Vehicle Intake, "Continue": a fresh run for the vehicle typed in
VehicleScreen(s, vin_input, current_miles, production_date) ==
  /\ auth_ok(s)
  /\ pc[s] = "idle"
  /\ session_state[s].step = "vehicle"
  /\ session_state' =
       WithSession(s, [vehicle |-> VehicleOf(vin_input, current_miles, production_date),
                       intervals |-> DEFAULT_INTERVALS,
                       history |-> [i \in Items |-> NewHistory],
                       results |-> NoResults,
                       last_submission_id |-> 0,
                       step |-> "intervals"])
  /\ last_db_save_msg' = [last_db_save_msg EXCEPT ![s] = Null]
  /\ UNCHANGED <<env, template_submissions, template_reviews, now, faults, pc, call, ret>>

\* int(x or 0) of an interval value
ValueOrZero(iv, key) == IF key \in DOMAIN iv THEN iv[key] ELSE 0

\* the intervals as the Intervals screen stores them on a run: an item in use
\* keeps the values above 0, an item with none is dropped
StoredIntervals(intervals) ==
  LET years(i) == ValueOrZero(Get(intervals, i), "years")
      miles(i) == ValueOrZero(Get(intervals, i), "miles")
      used == {i \in Items : years(i) > 0 \/ miles(i) > 0}
  IN [i \in used |->
        Interval(IF years(i) > 0 THEN years(i) ELSE NoNumber,
                 IF miles(i) > 0 THEN miles(i) ELSE NoNumber)]

\* Intervals screen: the run stores the intervals, a button leaves the screen
IntervalsScreen(s, button) ==
  /\ auth_ok(s)
  /\ pc[s] = "idle"
  /\ session_state[s].step = "intervals"
  /\ session_state' =
       WithSession(s, [intervals |-> StoredIntervals(session_state[s].intervals),
                       step |-> IF button = "back" THEN "vehicle" ELSE "history"])
  /\ UNCHANGED <<env, repo>>

\* the history of one item as a run of the History screen stores it
StoredHistory(hist, vehicle, day) ==
  LET default_base ==
        IF hist.last_date # NoDate THEN hist.last_date
        ELSE IF vehicle.production_date # NoDate THEN vehicle.production_date
        ELSE day
  IN IF hist.known
       THEN [hist EXCEPT
               !.last_miles = IF hist.last_miles = NoNumber THEN 0 ELSE hist.last_miles,
               !.last_date = <<default_base[1], default_base[2], 1>>]
       ELSE [hist EXCEPT !.last_miles = NoNumber, !.last_date = NoDate]

\* the items of SERVICE_ITEMS from position n on that are in the set, in order
RECURSIVE ItemsFrom(_, _)
ItemsFrom(n, picked) ==
  IF n > Len(SERVICE_ITEMS) THEN <<>>
  ELSE (IF SERVICE_ITEMS[n] \in picked THEN <<SERVICE_ITEMS[n]>> ELSE <<>>)
       \o ItemsFrom(n + 1, picked)

\* results whose bulk lines take a line from every item
CalculateResultsEveryLine(ss, day) ==
  LET out(i) == evaluate(ss, day, i, ss.vehicle, ss.history[i])
      payload(i) == [item |-> i, concise |-> out(i).concise_line,
                     verbose |-> out(i).verbose_line, bulk |-> out(i).bulk_line]
      bucket(status) ==
        LET picked == ItemsFrom(1, {i \in Items : out(i).status = status})
        IN [n \in 1..Len(picked) |-> payload(picked[n])]
      lines == [n \in 1..Len(SERVICE_ITEMS) |-> out(SERVICE_ITEMS[n]).bulk_line]
  IN [due_now |-> bucket("due_now"), due_soon |-> bucket("due_soon"),
      ok |-> bucket("ok"), na |-> bucket("na"), bulk_lines |-> lines]

\* "Calculate Results": the buckets and the bulk lines of the items
CalculateResults(ss, day) ==
  LET out(i) == evaluate(ss, day, i, ss.vehicle, ss.history[i])
      payload(i) == [item |-> i, concise |-> out(i).concise_line,
                     verbose |-> out(i).verbose_line, bulk |-> out(i).bulk_line]
      bucket(status) ==
        LET picked == ItemsFrom(1, {i \in Items : out(i).status = status})
        IN [n \in 1..Len(picked) |-> payload(picked[n])]
      lines == LET picked == ItemsFrom(1, {i \in Items : out(i).bulk_line # <<>>})
               IN [n \in 1..Len(picked) |-> out(picked[n]).bulk_line]
  IN [due_now |-> bucket("due_now"), due_soon |-> bucket("due_soon"),
      ok |-> bucket("ok"), na |-> bucket("na"), bulk_lines |-> lines]

\* the buttons of the History screen; "none" is a run no button started
HistoryButtons == {"none", "back", "edit", "calculate"}

\* Service History: the run stores the history; "Back" and "Edit Intervals"
\* leave for the Intervals screen; every other run, "Calculate Results" pressed
\* or not, goes on to save_submission_for_review and to the Results screen
HistoryScreen(s, clicked, submission_id, fault) ==
  LET ss == session_state[s]
      stored == [ss EXCEPT !.history =
                   [i \in Items |-> StoredHistory(ss.history[i], ss.vehicle, today)]]
  IN /\ auth_ok(s)
     /\ pc[s] = "idle"
     /\ ss.step = "history"
     /\ IF clicked \in {"back", "edit"}
          THEN /\ session_state' = WithSession(s, [step |-> "intervals"] @@ stored)
               /\ UNCHANGED <<env, repo>>
          ELSE /\ save_submission_for_review(s, ss.vehicle, submission_id, fault)
               /\ session_state' =
                    WithSession(s,
                      [step |-> "results",
                       results |-> IF clicked = "calculate"
                                     THEN CalculateResults(stored, today)
                                     ELSE ss.results] @@ stored)

\* the buttons of the Results screen
ResultsButtons == {"update", "back", "new"}

\* Results: "Update Saved Submission" is there for a manager whose session
\* holds a last_submission_id; "Back to History"; "Start New Vehicle"
ResultsScreen(s, button, c, fault) ==
  LET ss == session_state[s]
  IN /\ auth_ok(s)
     /\ pc[s] = "idle"
     /\ ss.step = "results"
     /\ IF button = "update"
          THEN /\ is_manager(s)
               /\ ss.last_submission_id # 0
               /\ update_submission_content(s, ss.last_submission_id, c[1], c[2], fault)
               /\ UNCHANGED session_state
        ELSE IF button = "back"
          THEN /\ session_state' = WithSession(s, [step |-> "history"])
               /\ UNCHANGED <<env, repo>>
        ELSE /\ session_state' =
                  WithSession(s, [step |-> "vehicle", vehicle |-> EmptyVehicle,
                                  intervals |-> <<>>, history |-> <<>>,
                                  results |-> NoResults, last_submission_id |-> 0])
             /\ last_db_save_msg' = [last_db_save_msg EXCEPT ![s] = Null]
             /\ UNCHANGED <<env, template_submissions, template_reviews, now, faults,
                            pc, call, ret>>

\* Manager Review: the Pending Queue with its review buttons, and the button
\* "Back to Results"
ManagerReviewScreen(s, clicked, back, fault) ==
  /\ auth_ok(s)
  /\ session_state[s].step = "manager_review"
  /\ IF back
       THEN /\ pc[s] = "idle"
            /\ is_manager(s)
            /\ db_ready
            /\ session_state' =
                 WithSession(s, [step |-> IF session_state[s].results # NoResults
                                           THEN "results" ELSE "vehicle"])
            /\ UNCHANGED <<env, repo>>
       ELSE /\ RenderTab(s, fetch_submissions_by_state("pending", fault), TRUE, clicked)
            /\ UNCHANGED session_state

\* the values typed into "Default due-soon miles"
DefaultMilesInputs == {3000, 5000}

\* Settings: behind the sidebar's guard a manager sets the default due-soon
\* miles; "Back" is there for everyone
SettingsScreen(s, back, miles_default) ==
  /\ auth_ok(s)
  /\ pc[s] = "idle"
  /\ session_state[s].step = "settings"
  /\ IF back
       THEN session_state' = WithSession(s, [step |-> "vehicle"])
       ELSE /\ is_manager(s)
            /\ session_state' = WithSession(s, [due_soon_miles_default |-> miles_default])
  /\ UNCHANGED <<env, repo>>

Next ==
  \/ SaveSubmission
  \/ UpdateContent
  \/ PendingQueue
  \/ OtherTabs
  \/ MySubmissions
  \/ ReviewBegin
  \/ ReviewLog
  \/ ReviewFinish

Spec == Init /\ [][Next]_vars

\* the planning side alone, with every VIN text: no review is started
NextPlanner ==
  \/ SaveAnyVin
  \/ UpdateContent
  \/ MySubmissions

SpecPlanner == Init /\ [][NextPlanner]_vars

\* the app from the login on: nobody is logged in, the database is configured
InitNav ==
  /\ today = ReviewDay
  /\ session_state = [s \in Sessions |-> ss_init]
  /\ secrets_db_url = TRUE
  /\ psycopg_ok = TRUE
  /\ template_submissions = <<>>
  /\ template_reviews = <<>>
  /\ now = 1
  /\ faults = 0
  /\ auth_user = [s \in Sessions |-> NullText]
  /\ last_db_save_msg = [s \in Sessions |-> Null]
  /\ pc = [s \in Sessions |-> "idle"]
  /\ call = [s \in Sessions |-> NoCall]
  /\ ret = NoRet

\* the mileage and the production date of the vehicle of these runs
NavMiles == 44000
NavProduction == <<2020, 6, 1>>

NavLogin == \E s \in Sessions : \E typed \in Typed(Accounts[s]) : Login(s, typed)

NavLogout == \E s \in Sessions : Logout(s)

NavSidebar == \E s \in Sessions, button \in SidebarButtons : Sidebar(s, button)

NavVehicle ==
  \E s \in Planners, v \in PlanVins : VehicleScreen(s, v, NavMiles, NavProduction)

NavIntervals == \E s \in Sessions, button \in {"back", "continue"} : IntervalsScreen(s, button)

NavHistory ==
  \E s \in Sessions, clicked \in HistoryButtons, id \in SubIds, fault \in Faults :
    HistoryScreen(s, clicked, id, fault)

NavResults ==
  \E s \in Sessions, button \in ResultsButtons, c \in ContentInputs, fault \in Faults :
    ResultsScreen(s, button, c, fault)

NavManagerReview ==
  \E s \in Sessions, clicked \in Clicks, back \in BOOLEAN, fault \in Faults :
    ManagerReviewScreen(s, clicked, back, fault)

NavSettings ==
  \E s \in Sessions, back \in BOOLEAN, d \in DefaultMilesInputs : SettingsScreen(s, back, d)

NextNav ==
  \/ NavLogin
  \/ NavLogout
  \/ NavSidebar
  \/ NavVehicle
  \/ NavIntervals
  \/ NavHistory
  \/ NavResults
  \/ NavManagerReview
  \/ NavSettings
  \/ ReviewBegin
  \/ ReviewLog
  \/ ReviewFinish

SpecNav == InitNav /\ [][NextNav]_vars

\* the intervals a planner may have set for Engine Oil and for Brake Fluid
OilIntervalInputs ==
  { <<>>, Interval(OilYears, NoNumber), Interval(NoNumber, OilMiles),
    Interval(OilYears, OilMiles) }
BrakeIntervalInputs == { Interval(BrakeFluidYears, NoNumber), Interval(OilYears, OilMiles) }

\* the last service of the known histories
LastMiles == 40000
LastDate == <<2023, 6, 1>>

\* the history a planner may have entered, as the History screen stores it
HistoryInputs ==
  { [known |-> k, last_miles |-> lm, last_date |-> IF k THEN LastDate ELSE NoDate,
     not_equipped |-> ne, performed_this_visit |-> ptv] :
      k \in BOOLEAN, lm \in {NoNumber, 0, LastMiles}, ne \in BOOLEAN, ptv \in BOOLEAN }
  \ { h \in [known : BOOLEAN, last_miles : {NoNumber, 0, LastMiles},
              last_date : {LastDate, NoDate}, not_equipped : BOOLEAN,
              performed_this_visit : BOOLEAN] :
        (h.known /\ h.last_miles = NoNumber) \/ (~h.known /\ h.last_miles # NoNumber) }

\* current mileages around the due mileage 45000 and the due-soon windows
MilesInputs == {0, 39999, 40000, 43499, 43500, 44999, 45000, 45200}

\* production dates: unknown, a 29 February, a day within a month
ProductionInputs == { NoDate, <<2020, 2, 29>>, <<2023, 6, 15>> }

\* evaluation days around the due dates 28 February 2021 and 1 June 2024
TodayInputs ==
  { <<2021, 2, 27>>, <<2021, 2, 28>>, <<2023, 11, 30>>, <<2023, 12, 1>>,
    <<2024, 5, 31>>, <<2024, 6, 1>> }

\* the due-soon miles a manager may have set for Engine Oil in Settings
OilDueSoonInputs == {OilDueSoonMiles, 0}

\* a planner is on the History screen with a vehicle, intervals and history,
\* in a local run without [database].url in the secrets
InitEval ==
  /\ today \in TodayInputs
  /\ \E oil \in OilIntervalInputs, brake \in BrakeIntervalInputs, h \in HistoryInputs,
        m \in MilesInputs, pd \in ProductionInputs, ds \in OilDueSoonInputs :
       session_state =
         [s \in Sessions |->
            IF s \in Planners
              THEN [step |-> "history",
                    vehicle |-> VehicleOf(V17, m, pd),
                    intervals |-> StoredIntervals(
                       [i \in {"Engine Oil", "Brake Fluid"} |->
                          IF i = "Engine Oil" THEN oil ELSE brake]),
                    history |-> [i \in Items |-> h],
                    due_soon_miles_by_item |->
                      [ss_init.due_soon_miles_by_item EXCEPT !["Engine Oil"] = ds]]
                   @@ ss_init
              ELSE ss_init]
  /\ secrets_db_url = FALSE
  /\ psycopg_ok = TRUE
  /\ template_submissions = <<>>
  /\ template_reviews = <<>>
  /\ now = 1
  /\ faults = 0
  /\ auth_user = [s \in Sessions |-> IF s \in Planners THEN Accounts[s] ELSE NullText]
  /\ last_db_save_msg = [s \in Sessions |-> Null]
  /\ pc = [s \in Sessions |-> "idle"]
  /\ call = [s \in Sessions |-> NoCall]
  /\ ret = NoRet

NextEval ==
  \/ NavHistory
  \/ NavResults

SpecEval == InitEval /\ [][NextEval]_vars

(***************************************************************************)
(* Properties                                                              *)
(***************************************************************************)
Terminal == {"approved", "denied", "changes_requested"}

\* the state a review action aims at
TargetOf(action) ==
  IF action = "approve" THEN "approved"
  ELSE IF action = "deny" THEN "denied"
  ELSE "changes_requested"

\* the review-log rows that reference submission id
LogOf(id) == {k \in DOMAIN template_reviews : template_reviews[k].submission_id = id}

\* session s has logged the review it is running
Logged(s) ==
  \E k \in LogOf(call[s].submission_id) :
    /\ template_reviews[k].reviewed_by = auth_user[s]
    /\ template_reviews[k].action = call[s].action

\* session s takes the third step of its review and no fault strikes it
UpdateStep(s) == pc[s] = "update" /\ pc'[s] = "idle" /\ faults' = faults

\* session s takes the second step of its review and no fault strikes it
InsertStep(s) == pc[s] = "insert" /\ pc'[s] = "update"

AllIdle == \A s \in Sessions : pc[s] = "idle"

C2_TerminalIsFinal ==
  [][\A id \in DOMAIN template_submissions :
       /\ id \in DOMAIN template_submissions'
       /\ LET old == template_submissions[id].manager_state
              new == template_submissions'[id].manager_state
          IN old # new => (old = "pending" /\ new \in Terminal)
    ]_vars

\* a finalized submission on which a second review with another action has
\* run to its end, and whose content was updated
C2_Witness ==
  /\ AllIdle
  /\ \E id \in DOMAIN template_submissions :
       /\ template_submissions[id].manager_state \in Terminal
       /\ template_submissions[id].vehicle_notes = "v1"
       /\ \E k \in LogOf(id) :
            /\ TargetOf(template_reviews[k].action) # template_submissions[id].manager_state
            /\ template_reviews[k].snapshot.manager_state \in Terminal

C4_AppendOnly ==
  [][/\ \A k \in DOMAIN template_reviews :
          /\ k \in DOMAIN template_reviews'
          /\ template_reviews'[k] = template_reviews[k]
     /\ DOMAIN template_submissions \subseteq DOMAIN template_submissions'
    ]_vars

\* the log holds two rows, and the submission of the first was changed after
\* that row was written
C4_Witness ==
  \E j, k \in DOMAIN template_reviews :
    /\ j # k
    /\ LET id == template_reviews[j].submission_id
       IN /\ template_reviews[j].snapshot.manager_state = "pending"
          /\ template_submissions[id].manager_state \in Terminal

BadVins ==
  { Rep("A", 16) \o <<"sz">>, Rep("A", 16), <<" ">> \o Rep("A", 16), <<>> }

\* C6: a create with a VIN whose normalized length is not 17 writes no
\* submission row, leaves the stored submissions as they are and reports
\* "Review NOT saved: full 17-character VIN required."
C6_BadVinNotSaved ==
  [][\A s \in Planners, v \in BadVins, id \in SubIds, fault \in BOOLEAN :
       save_submission_for_review(s, Vehicle(v), id, fault) =>
         /\ template_submissions' = template_submissions
         /\ last_db_save_msg'[s] = "Review NOT saved: full 17-character VIN required."
    ]_vars

\* a create was refused for its VIN while a submission is stored
C6_Witness ==
  /\ \E s \in Planners :
       last_db_save_msg[s] = "Review NOT saved: full 17-character VIN required."
  /\ DOMAIN template_submissions # {}

\* C7: a successful create adds exactly one row, under an identifier no row
\* had, in state pending, and leaves every existing row unchanged; rows are
\* added by nothing else.
C7_CreateAddsOneRow ==
  [][/\ \A s \in Planners :
          (/\ last_db_save_msg'[s] = "[ok] Saved for manager review (pending)."
           /\ UNCHANGED <<pc, ret, template_reviews>>
           /\ SaveSubmission) =>
            \E new \in DOMAIN template_submissions' \ DOMAIN template_submissions :
              /\ DOMAIN template_submissions' = DOMAIN template_submissions \cup {new}
              /\ template_submissions'[new].manager_state = "pending"
              /\ \A k \in DOMAIN template_submissions :
                   template_submissions'[k] = template_submissions[k]
     /\ DOMAIN template_submissions' # DOMAIN template_submissions =>
          (UNCHANGED <<pc, ret, template_reviews>> /\ SaveSubmission)
    ]_vars

\* two rows of the same VIN, the first of them reviewed in the meantime
C7_Witness ==
  \E j, k \in DOMAIN template_submissions :
    /\ j # k
    /\ template_submissions[j].vin = template_submissions[k].vin
    /\ template_submissions[j].manager_state \in Terminal
    /\ template_submissions[k].manager_state = "pending"

\* C8: no storage fault leaves a repository operation as an exception: each
\* one is returned to the caller as a message.
C8_NoFaultEscapes == ret.kind # "raised"

\* C9: a review of a submission that is no longer pending, struck by no
\* fault, leaves the submission rows unchanged and returns a message that
\* does not announce the state it aimed at.
C9_NoChangeReported ==
  [][\A s \in Sessions :
       (/\ UpdateStep(s)
        /\ template_submissions[call[s].submission_id].manager_state # "pending")
       => /\ template_submissions' = template_submissions
          /\ ret'.kind = "returned"
          /\ ret'.text # <<"ok", "APPROVED", ".">>
          /\ ret'.text # <<"ok", "DENIED", ".">>
          /\ ret'.text # <<"ok", "CHANGES_REQUESTED", ".">>
    ]_vars

C11_UpdateTouchesContentOnly ==
  [][\A s \in Planners, id \in DOMAIN template_submissions, c \in ContentInputs :
       (/\ ret'.op = "update"
        /\ db_ready
        /\ update_submission_content(s, id, c[1], c[2], FALSE)) =>
         /\ ret' = [op |-> "update", kind |-> "returned",
                    text |-> <<"ok", "Saved updates to submission.">>]
         /\ template_reviews' = template_reviews
         /\ DOMAIN template_submissions' = DOMAIN template_submissions
         /\ \A k \in DOMAIN template_submissions \ {id} :
              template_submissions'[k] = template_submissions[k]
         /\ template_submissions'[id] =
              [template_submissions[id] EXCEPT
                 !.bulk_copy = c[1],
                 !.vehicle_notes = c[2],
                 !.updated_at = template_submissions'[id].updated_at]
    ]_vars

\* the content of a finalized submission was updated after a review had read
\* its snapshot, next to a second submission that kept its content
C11_Witness ==
  /\ ret = [op |-> "update", kind |-> "returned",
            text |-> <<"ok", "Saved updates to submission.">>]
  /\ \E id, other \in DOMAIN template_submissions :
       /\ id # other
       /\ template_submissions[id].manager_state \in Terminal
       /\ template_submissions[id].vehicle_notes = "v1"
       /\ template_submissions[other].vehicle_notes = Null
       /\ \E k \in LogOf(id) : template_reviews[k].snapshot.vehicle_notes = "null"

\* the due-soon thresholds and the bullets of a session, which Settings edits
Thresholds(ss) ==
  <<ss.due_soon_miles_default, ss.due_soon_months_default,
    ss.due_soon_miles_by_item, ss.due_soon_months_by_item, ss.bulk_bullets>>

\* C12: review_submission runs only in a session that is logged in with a
\* manager account, every review-log row carries a manager as reviewer, and
\* the thresholds of a session change only while a manager is logged in to it.
C12_OnlyManagersReview ==
  [][/\ \A s \in Sessions :
          /\ pc'[s] # "idle" => auth_user'[s] \in Managers
          /\ Thresholds(session_state'[s]) # Thresholds(session_state[s]) =>
               auth_user[s] \in Managers
     /\ \A k \in DOMAIN template_reviews' : template_reviews'[k].reviewed_by \in Managers
    ]_vars

\* a shop user has the Manager Review screen open on a pending submission,
\* while a manager is in the middle of a review and has changed a threshold
C12_Witness ==
  \E s, m \in Sessions :
    /\ auth_user[s] \in ShopUsers
    /\ session_state[s].step = "manager_review"
    /\ \E id \in DOMAIN template_submissions :
         template_submissions[id].manager_state = "pending"
    /\ auth_user[m] \in Managers
    /\ pc[m] = "update"
    /\ session_state[m].due_soon_miles_default # DueSoonMilesDefault

\* C13: a submission row is added only by a run of the History screen that
\* "Calculate Results" started, and such a run, for a 17-character VIN with
\* the database ready and no fault, adds exactly one pending row.
C13_RowsOnlyByCalculate ==
  [][/\ DOMAIN template_submissions' # DOMAIN template_submissions =>
          \E s \in Sessions :
            /\ session_state[s].step = "history"
            /\ \E id \in SubIds, fault \in BOOLEAN : HistoryScreen(s, "calculate", id, fault)
     /\ \A s \in Sessions :
          (/\ session_state[s].step = "history"
           /\ session_state'[s].step = "results"
           /\ session_state'[s].results # session_state[s].results
           /\ faults' = faults
           /\ Len(session_state[s].vehicle.vin) = 17) =>
            \E new \in DOMAIN template_submissions' \ DOMAIN template_submissions :
              /\ DOMAIN template_submissions' = DOMAIN template_submissions \cup {new}
              /\ template_submissions'[new].manager_state = "pending"
    ]_vars

\* C14: a successful save leaves the identifier of the new row in the
\* session's last_submission_id.
C14_LastSubmissionIdIsSet ==
  [][\A s \in Sessions :
       (/\ last_db_save_msg'[s] = "[ok] Saved for manager review (pending)."
        /\ DOMAIN template_submissions' # DOMAIN template_submissions) =>
         /\ session_state'[s].last_submission_id # 0
         /\ session_state'[s].last_submission_id
              \in DOMAIN template_submissions' \ DOMAIN template_submissions
    ]_vars

Statuses == {"due_now", "due_soon", "ok", "na"}

\* the results of session s hold item i in the bucket of the status
InBucket(s, status, i) ==
  \E n \in 1..Len(session_state[s].results[status]) :
    session_state[s].results[status][n].item = i

\* "Calculate Results" has run in session s
Calculated(s) == session_state[s].results # NoResults

\* the status and the bulk line the results of session s hold for item i
StatusOf(s, i) == CHOOSE status \in Statuses : InBucket(s, status, i)

BulkOf(s, i) ==
  LET bucket == session_state[s].results[StatusOf(s, i)]
  IN bucket[CHOOSE n \in 1..Len(bucket) : bucket[n].item = i].bulk

\* the history, the interval and the baselines of item i in session s
HistOf(s, i) == session_state[s].history[i]

IvOf(s, i) == Get(session_state[s].intervals, i)

BaseMiles(s, i) == IF HistOf(s, i).known THEN HistOf(s, i).last_miles ELSE 0

BaseDate(s, i) ==
  IF HistOf(s, i).known THEN HistOf(s, i).last_date
  ELSE session_state[s].vehicle.production_date

\* item i of session s is equipped and has an interval
Evaluable(s, i) == ~HistOf(s, i).not_equipped /\ DOMAIN IvOf(s, i) # {}

\* C15: an item whose history is marked not equipped has status na and an
\* empty bulk line, whatever its interval, its other history fields, the
\* mileage and the date are.
C15_NotEquippedIsNa ==
  \A s \in Planners :
    Calculated(s) =>
      \A i \in Items :
        HistOf(s, i).not_equipped =>
          /\ InBucket(s, "na", i)
          /\ \A status \in Statuses \ {"na"} : ~InBucket(s, status, i)
          /\ BulkOf(s, i) = <<>>

\* a not-equipped item with an interval, a known history and a mileage past
\* the due mileage was evaluated
C15_Witness ==
  \E s \in Planners :
    /\ Calculated(s)
    /\ HistOf(s, "Engine Oil").not_equipped
    /\ HistOf(s, "Engine Oil").known
    /\ HistOf(s, "Engine Oil").performed_this_visit
    /\ "miles" \in DOMAIN IvOf(s, "Engine Oil")
    /\ session_state[s].vehicle.current_miles > LastMiles + OilMiles

\* C16: an item with no interval configured has status na and an empty bulk
\* line, for every vehicle and every history.
C16_NoIntervalIsNa ==
  \A s \in Planners :
    Calculated(s) =>
      \A i \in Items :
        DOMAIN IvOf(s, i) = {} =>
          /\ InBucket(s, "na", i)
          /\ \A status \in Statuses \ {"na"} : ~InBucket(s, status, i)
          /\ BulkOf(s, i) = <<>>

\* an equipped item without interval was evaluated although its known
\* history lies more than the Engine Oil interval back, in miles and in time
C16_Witness ==
  \E s \in Planners :
    /\ Calculated(s)
    /\ DOMAIN IvOf(s, "Engine Oil") = {}
    /\ ~HistOf(s, "Engine Oil").not_equipped
    /\ HistOf(s, "Engine Oil").last_miles = LastMiles
    /\ session_state[s].vehicle.current_miles > LastMiles + OilMiles
    /\ DateLE(add_years(LastDate, OilYears), today)

\* C17: for an equipped item with an interval the status is due_now exactly
\* when miles_due or time_due holds, due_soon exactly when neither holds and
\* miles_soon or time_soon holds, and ok otherwise.
C17_OrLogic ==
  \A s \in Planners :
    Calculated(s) =>
      \A i \in Items :
        Evaluable(s, i) =>
          LET ss == session_state[s]
              m == MilesEvaluation(IvOf(s, i), BaseMiles(s, i), ss.vehicle.current_miles,
                                   get_due_soon_miles(ss, i))
              t == TimeEvaluation(IvOf(s, i), BaseDate(s, i), today,
                                  get_due_soon_months(ss, i))
              due == m.miles_due \/ t.time_due
              soon == m.miles_soon \/ t.time_soon
          IN /\ InBucket(s, "due_now", i) <=> due
             /\ InBucket(s, "due_soon", i) <=> (~due /\ soon)
             /\ InBucket(s, "ok", i) <=> (~due /\ ~soon)
             /\ ~InBucket(s, "na", i)

\* the time dimension alone made an item due now: its mileage check ran and
\* found the mileage neither due nor soon
C17_Witness ==
  \E s \in Planners :
    /\ Calculated(s)
    /\ \E i \in Items :
         /\ Evaluable(s, i)
         /\ InBucket(s, "due_now", i)
         /\ "miles" \in DOMAIN IvOf(s, i)
         /\ BaseMiles(s, i) > 0
         /\ session_state[s].vehicle.current_miles + get_due_soon_miles(session_state[s], i)
              < BaseMiles(s, i) + IvOf(s, i)["miles"]

\* the mileage check of item i in session s is performed and its time
\* dimension is neither due nor soon
MilesDecide(s, i) ==
  /\ Evaluable(s, i)
  /\ "miles" \in DOMAIN IvOf(s, i)
  /\ BaseMiles(s, i) > 0
  /\ LET t == TimeEvaluation(IvOf(s, i), BaseDate(s, i), today,
                             get_due_soon_months(session_state[s], i))
     IN ~t.time_due /\ ~t.time_soon

\* the miles left until item i of session s is due
RemainingMiles(s, i) ==
  BaseMiles(s, i) + IvOf(s, i)["miles"] - session_state[s].vehicle.current_miles

\* C18 as stated: when the mileage decides, a current mileage equal to
\* baseline + interval miles gives due_now, remaining miles equal to the
\* due-soon-miles threshold give due_soon, and remaining miles equal to the
\* threshold + 1 give ok.
C18_InclusiveBoundaries ==
  \A s \in Planners :
    Calculated(s) =>
      \A i \in Items :
        MilesDecide(s, i) =>
          LET threshold == get_due_soon_miles(session_state[s], i)
          IN /\ RemainingMiles(s, i) = 0 => InBucket(s, "due_now", i)
             /\ RemainingMiles(s, i) = threshold => InBucket(s, "due_soon", i)
             /\ RemainingMiles(s, i) = threshold + 1 => InBucket(s, "ok", i)

\* C18, amended: when the mileage decides, a current mileage equal to
\* baseline + interval miles gives due_now; remaining miles equal to the
\* due-soon-miles threshold give due_soon when the threshold is positive
\* (with a threshold of 0 that mileage is the due mileage and gives
\* due_now); remaining miles equal to the threshold + 1 give ok.
C18_InclusiveBoundariesAboveZero ==
  \A s \in Planners :
    Calculated(s) =>
      \A i \in Items :
        MilesDecide(s, i) =>
          LET threshold == get_due_soon_miles(session_state[s], i)
          IN /\ RemainingMiles(s, i) = 0 => InBucket(s, "due_now", i)
             /\ (threshold > 0 /\ RemainingMiles(s, i) = threshold)
                  => InBucket(s, "due_soon", i)
             /\ RemainingMiles(s, i) = threshold + 1 => InBucket(s, "ok", i)

\* the results hold an item exactly at its due-soon boundary with a positive
\* threshold, in the due_soon bucket
C18_Witness ==
  \E s \in Planners :
    /\ Calculated(s)
    /\ \E i \in Items :
         /\ MilesDecide(s, i)
         /\ get_due_soon_miles(session_state[s], i) > 0
         /\ RemainingMiles(s, i) = get_due_soon_miles(session_state[s], i)
         /\ InBucket(s, "due_soon", i)

\* the order of urgency ok < due_soon < due_now
Urgency(status) ==
  IF status = "due_now" THEN 2 ELSE IF status = "due_soon" THEN 1 ELSE 0

\* the status of item i of session s at another mileage and another date,
\* with its interval, its history and the thresholds as they are
StatusAt(s, i, miles, day) ==
  evaluate(session_state[s], day, i,
           [session_state[s].vehicle EXCEPT !.current_miles = miles],
           HistOf(s, i)).status

\* C19: with item, interval, history and thresholds fixed, the status at a
\* higher current mileage is at least as urgent as the computed one, and the
\* status at a later evaluation date is at least as urgent as the computed
\* one, in the order ok < due_soon < due_now.
C19_Monotone ==
  \A s \in Planners :
    Calculated(s) =>
      \A i \in Items :
        Evaluable(s, i) =>
          LET vehicle == session_state[s].vehicle
          IN /\ \A m2 \in MilesInputs :
                  vehicle.current_miles <= m2 =>
                    Urgency(StatusOf(s, i)) <= Urgency(StatusAt(s, i, m2, today))
             /\ \A d2 \in TodayInputs :
                  DateLE(today, d2) =>
                    Urgency(StatusOf(s, i))
                      <= Urgency(StatusAt(s, i, vehicle.current_miles, d2))

\* an item computed as ok is due soon at a higher mileage, due now at a still
\* higher one, and due now at a later date
C19_Witness ==
  \E s \in Planners :
    /\ Calculated(s)
    /\ \E i \in Items :
         /\ Evaluable(s, i)
         /\ InBucket(s, "ok", i)
         /\ \E m2, m3 \in MilesInputs :
              /\ session_state[s].vehicle.current_miles < m2
              /\ m2 < m3
              /\ StatusAt(s, i, m2, today) = "due_soon"
              /\ StatusAt(s, i, m3, today) = "due_now"
         /\ \E d2 \in TodayInputs :
              /\ DateLE(today, d2)
              /\ StatusAt(s, i, session_state[s].vehicle.current_miles, d2) = "due_now"

\* the thresholds a manager may set in Settings
ThresholdMilesInputs == {0, OilDueSoonMiles, DueSoonMilesDefault}

ThresholdMonthsInputs == {0, DueSoonMonthsDefault, 24}

\* the status of item i of session s under another threshold configuration
StatusUnder(s, i, miles, months) ==
  evaluate([session_state[s] EXCEPT !.due_soon_miles_by_item[i] = miles,
                                    !.due_soon_months_by_item[i] = months],
           today, i, session_state[s].vehicle, HistOf(s, i)).status

\* C20: for any item, vehicle, interval, history and date, the item is due_now
\* under one threshold configuration exactly when it is due_now under any
\* other; thresholds only move an item between due_soon and ok.
C20_ThresholdsNeverDueNow ==
  \A s \in Planners :
    Calculated(s) =>
      \A i \in Items :
        \A miles \in ThresholdMilesInputs, months \in ThresholdMonthsInputs :
          LET other == StatusUnder(s, i, miles, months)
          IN /\ (other = "due_now") <=> InBucket(s, "due_now", i)
             /\ other # StatusOf(s, i) =>
                  {other, StatusOf(s, i)} = {"due_soon", "ok"}

\* the thresholds matter: an item computed as ok is due soon under a wider
\* miles threshold and under a wider months threshold
C20_Witness ==
  \E s \in Planners :
    /\ Calculated(s)
    /\ \E i \in Items :
         /\ InBucket(s, "ok", i)
         /\ StatusUnder(s, i, DueSoonMilesDefault,
                         get_due_soon_months(session_state[s], i)) = "due_soon"
         /\ StatusUnder(s, i, get_due_soon_miles(session_state[s], i), 24) = "due_soon"

\* the items no session ever gives a due-soon value of its own: Settings
\* changes the global default only, and ss_init singles out Engine Oil
NeverOverridden == Items \ {"Engine Oil"}

\* C21: the due-soon miles used for an item are the item's own override when
\* one was set and the current global default otherwise: after the default
\* is changed in Settings, every item never given an override of its own is
\* evaluated with the new default.
C21_DefaultAppliesWithoutOverride ==
  \A s \in Sessions :
    \A i \in NeverOverridden :
      get_due_soon_miles(session_state[s], i) = session_state[s].due_soon_miles_default

\* the payload the results of session s hold for item i
PayloadOf(s, i) ==
  LET bucket == session_state[s].results[StatusOf(s, i)]
  IN bucket[CHOOSE n \in 1..Len(bucket) : bucket[n].item = i]

\* the last-done text of "SCV'D TODAY"
ServicedTodayMarker == <<"SCV'D TODAY">>

\* C22: when performed-this-visit is set, the last-done text of the rendered
\* lines is the serviced-today marker in every branch except not-equipped,
\* the na branch of an item without interval included, and the flag never
\* changes the status.
C22_ServicedTodayEverywhere ==
  \A s \in Planners :
    Calculated(s) =>
      \A i \in Items :
        (HistOf(s, i).performed_this_visit /\ ~HistOf(s, i).not_equipped) =>
          /\ PayloadOf(s, i).concise[2] = ServicedTodayMarker
          /\ PayloadOf(s, i).verbose[2] = ServicedTodayMarker
          /\ StatusOf(s, i)
               = evaluate(session_state[s], today, i, session_state[s].vehicle,
                          [HistOf(s, i) EXCEPT !.performed_this_visit = FALSE]).status

\* the items of SERVICE_ITEMS, in order, that the results of session s hold
\* outside the na bucket
NotNa(s) ==
  LET rated(i) == ~InBucket(s, "na", i)
  IN SelectSeq(SERVICE_ITEMS, rated)

\* C23: in a planning run every item lands in exactly one of the four
\* buckets, the one of its status, and the bulk output holds exactly one line
\* for each item whose status is not na, in item-list order, and no line for
\* an na item.
C23_BucketsAndBulkLines ==
  \A s \in Planners :
    Calculated(s) =>
      LET results == session_state[s].results
      IN /\ \A i \in Items :
              /\ Cardinality({status \in Statuses : InBucket(s, status, i)}) = 1
              /\ InBucket(s, evaluate_item(s, i, session_state[s].vehicle, HistOf(s, i)).status, i)
         /\ Len(results.due_now) + Len(results.due_soon) + Len(results.ok) + Len(results.na)
              = Len(SERVICE_ITEMS)
         /\ Len(results.bulk_lines) = Len(NotNa(s))
         /\ \A n \in 1..Len(NotNa(s)) :
              /\ results.bulk_lines[n] = PayloadOf(s, NotNa(s)[n]).bulk
              /\ results.bulk_lines[n] # <<>>
              /\ results.bulk_lines[n][2] = NotNa(s)[n]

\* a run with an na item and two rated items in different buckets
C23_Witness ==
  \E s \in Planners :
    /\ Calculated(s)
    /\ InBucket(s, "na", "Cabin Filter")
    /\ InBucket(s, "due_now", "Engine Oil")
    /\ InBucket(s, "ok", "Brake Fluid")
    /\ Len(session_state[s].results.bulk_lines) = 2

\* item i of session s has a years-only interval, no history and a vehicle
\* with a production date
FromProduction(s, i) ==
  /\ Evaluable(s, i)
  /\ DOMAIN IvOf(s, i) = {"years"}
  /\ ~HistOf(s, i).known
  /\ session_state[s].vehicle.production_date # NoDate

\* the production date shifted forward by the interval years of item i
ProductionDue(s, i) ==
  LET pd == session_state[s].vehicle.production_date
      years == IvOf(s, i)["years"]
  IN IF pd[2] = 2 /\ pd[3] = 29 /\ ~IsLeap(pd[1] + years)
       THEN <<pd[1] + years, 2, 28>>
       ELSE <<pd[1] + years, pd[2], pd[3]>>

\* an item with an interval of 4 years and no history on a vehicle produced
\* on 2020-06-01, evaluated on 2024-07-01
FourYearCase ==
  evaluate([ss_init EXCEPT !.intervals = ("Brake Fluid" :> Interval(4, NoNumber))],
           <<2024, 7, 1>>, "Brake Fluid",
           [current_miles |-> 0, production_date |-> <<2020, 6, 1>>],
           [known |-> FALSE, last_miles |-> NoNumber, last_date |-> NoDate,
            not_equipped |-> FALSE, performed_this_visit |-> FALSE])

\* C24: for an item with a years-only interval and no history the due date is
\* the production date shifted forward by the interval years, and the status
\* is due_now on every evaluation date on or after that due date (4 years
\* from 2020-06-01 evaluated on 2024-07-01: due 06/2024 and due_now).
C24_ProductionBaseline ==
  \A s \in Planners :
    Calculated(s) =>
      /\ \A i \in Items :
           FromProduction(s, i) =>
             /\ PayloadOf(s, i).concise[4][1][2] = MonthYear(ProductionDue(s, i))
             /\ DateLE(ProductionDue(s, i), today) => InBucket(s, "due_now", i)
             /\ \A d2 \in TodayInputs :
                  DateLE(ProductionDue(s, i), d2) =>
                    StatusAt(s, i, session_state[s].vehicle.current_miles, d2) = "due_now"
      /\ FourYearCase.status = "due_now"
      /\ FourYearCase.concise_line[4] = << <<"due was", <<6, 2024>> >> >>

\* an item without history was evaluated on the very day its interval from
\* the production date ran out, 29 February moved to 28 February
C24_Witness ==
  \E s \in Planners :
    /\ Calculated(s)
    /\ \E i \in Items :
         /\ FromProduction(s, i)
         /\ ProductionDue(s, i) = today
         /\ session_state[s].vehicle.production_date[3] # today[3]
         /\ InBucket(s, "due_now", i)

\* item i of session s has no positive baseline mileage: no history, or a
\* known history whose last mileage is absent or 0
NoBaselineMiles(s, i) ==
  \/ ~HistOf(s, i).known
  \/ HistOf(s, i).last_miles = NoNumber
  \/ HistOf(s, i).last_miles = 0

\* the time check of item i of session s cannot run
NoTimeCheck(s, i) == "years" \notin DOMAIN IvOf(s, i) \/ BaseDate(s, i) = NoDate

\* C25: the mileage check runs only from a positive baseline mileage: for an
\* item without one the status is the same at every current mileage, it is
\* the status the time check alone gives, it is ok when the time check
\* cannot run, and the rendered line names no due mileage.
C25_NoBaselineNoMileageCheck ==
  \A s \in Planners :
    Calculated(s) =>
      \A i \in Items :
        (Evaluable(s, i) /\ NoBaselineMiles(s, i)) =>
          LET t == TimeEvaluation(IvOf(s, i), BaseDate(s, i), today,
                                  get_due_soon_months(session_state[s], i))
          IN /\ \A m2 \in MilesInputs : StatusAt(s, i, m2, today) = StatusOf(s, i)
             /\ InBucket(s, "due_now", i) <=> t.time_due
             /\ InBucket(s, "due_soon", i) <=> t.time_soon
             /\ NoTimeCheck(s, i) => InBucket(s, "ok", i)
             /\ IF NoTimeCheck(s, i)
                  THEN PayloadOf(s, i).concise[4] = <<"next unknown">>
                  ELSE /\ Len(PayloadOf(s, i).concise[4]) = 1
                       /\ PayloadOf(s, i).concise[4][1][2] = MonthYear(t.due_date)

\* an item with a miles-only interval and a known history of 0 miles was
\* computed as ok on a vehicle far beyond the interval miles
C25_Witness ==
  \E s \in Planners :
    /\ Calculated(s)
    /\ \E i \in Items :
         /\ Evaluable(s, i)
         /\ DOMAIN IvOf(s, i) = {"miles"}
         /\ HistOf(s, i).known
         /\ HistOf(s, i).last_miles = 0
         /\ session_state[s].vehicle.current_miles > IvOf(s, i)["miles"]
         /\ InBucket(s, "ok", i)

(***************************************************************************)
(* Intervals screen: the Years and Miles inputs and their callbacks        *)
(***************************************************************************)
AUTO_MILES_PER_YEAR == 10000

\* the values typed into Years and into Miles
YearsInputs == {0, 1, 2}

MilesTyped == {0, 7500, 20000}

\* the widget state the first run of the Intervals screen creates from the
\* stored intervals: use_, years_, miles_ and auto_miles_ of every item
Widgets(intervals) ==
  [use |-> [i \in Items |-> ValueOrZero(Get(intervals, i), "years") > 0
                            \/ ValueOrZero(Get(intervals, i), "miles") > 0],
   years |-> [i \in Items |-> ValueOrZero(Get(intervals, i), "years")],
   miles |-> [i \in Items |-> ValueOrZero(Get(intervals, i), "miles")],
   auto_miles |-> [i \in Items |-> TRUE]]

\* on_years_change on the widget state w, Years holding its new value
on_years_change(w, item) ==
  IF ~w.auto_miles[item] THEN w
  ELSE IF w.years[item] > 0
    THEN [w EXCEPT !.miles[item] = w.years[item] * AUTO_MILES_PER_YEAR]
  ELSE w

\* on_miles_change on the widget state w, Miles holding its new value
on_miles_change(w, item) ==
  LET miles == w.miles[item]
      years == w.years[item]
      auto_value == IF years > 0 THEN years * AUTO_MILES_PER_YEAR ELSE 0
  IN IF miles = 0 THEN [w EXCEPT !.auto_miles[item] = TRUE]
     ELSE IF years > 0 /\ miles # auto_value THEN [w EXCEPT !.auto_miles[item] = FALSE]
     ELSE w

\* the intervals the run of the Intervals screen stores from the widgets
StoredFromWidgets(w) ==
  [i \in {j \in Items : w.use[j] /\ (w.years[j] > 0 \/ w.miles[j] > 0)} |->
     Interval(IF w.years[i] > 0 THEN w.years[i] ELSE NoNumber,
              IF w.miles[i] > 0 THEN w.miles[i] ELSE NoNumber)]

\* the user changes Years of an item in use: the callback runs, then the
\* screen runs again and stores the intervals; own_miles tells for each item
\* whether its Miles value is one the user typed and that still stands
YearsChange(s, item, y) ==
  LET w == session_state[s].widgets
      w1 == on_years_change([w EXCEPT !.years[item] = y], item)
      own == session_state[s].own_miles
  IN /\ auth_ok(s)
     /\ pc[s] = "idle"
     /\ session_state[s].step = "intervals"
     /\ w.use[item]
     /\ y # w.years[item]
     /\ session_state' =
          WithSession(s, [widgets |-> w1,
                          own_miles |-> [own EXCEPT ![item] =
                                           own[item] /\ w1.miles[item] = w.miles[item]],
                          intervals |-> StoredFromWidgets(w1)])
     /\ UNCHANGED <<env, repo>>

\* the user changes Miles of an item in use; a value other than 0 and other
\* than Years x 10,000 is one of the user's own
MilesChange(s, item, m) ==
  LET w == session_state[s].widgets
      w1 == on_miles_change([w EXCEPT !.miles[item] = m], item)
      own == session_state[s].own_miles
  IN /\ auth_ok(s)
     /\ pc[s] = "idle"
     /\ session_state[s].step = "intervals"
     /\ w.use[item]
     /\ m # w.miles[item]
     /\ session_state' =
          WithSession(s, [widgets |-> w1,
                          own_miles |-> [own EXCEPT ![item] =
                                           m # 0 /\ m # w.years[item] * AUTO_MILES_PER_YEAR],
                          intervals |-> StoredFromWidgets(w1)])
     /\ UNCHANGED <<env, repo>>

\* a planner has left the Vehicle screen and is on the Intervals screen
InitAuto ==
  /\ today = ReviewDay
  /\ session_state =
       [s \in Sessions |->
          IF s \in Planners
            THEN [step |-> "intervals",
                  vehicle |-> VehicleOf(V17, NavMiles, NavProduction),
                  intervals |-> DEFAULT_INTERVALS,
                  history |-> [i \in Items |-> NewHistory],
                  widgets |-> Widgets(DEFAULT_INTERVALS),
                  own_miles |-> [i \in Items |-> FALSE]] @@ ss_init
            ELSE ss_init]
  /\ secrets_db_url = FALSE
  /\ psycopg_ok = TRUE
  /\ template_submissions = <<>>
  /\ template_reviews = <<>>
  /\ now = 1
  /\ faults = 0
  /\ auth_user = [s \in Sessions |-> IF s \in Planners THEN Accounts[s] ELSE NullText]
  /\ last_db_save_msg = [s \in Sessions |-> Null]
  /\ pc = [s \in Sessions |-> "idle"]
  /\ call = [s \in Sessions |-> NoCall]
  /\ ret = NoRet

AutoYears == \E s \in Planners, i \in Items, y \in YearsInputs : YearsChange(s, i, y)

AutoMiles == \E s \in Planners, i \in Items, m \in MilesTyped : MilesChange(s, i, m)

NextAuto ==
  \/ AutoYears
  \/ AutoMiles

SpecAuto == InitAuto /\ [][NextAuto]_vars

\* C26: while auto-fill is enabled for an item, setting Years to y > 0 sets
\* Miles to y x 10,000; once the user has entered a non-zero Miles value of
\* their own, no later change of Years overwrites it, until Miles is set back
\* to 0, which re-enables auto-fill.
C26_AutoMilesRule ==
  [][\A s \in Planners : \A i \in Items :
       LET w == session_state[s].widgets
           w1 == session_state'[s].widgets
       IN /\ w1.years[i] # w.years[i] =>
               IF session_state[s].own_miles[i]
                 THEN w1.miles[i] = w.miles[i]
                 ELSE w1.years[i] > 0 => w1.miles[i] = w1.years[i] * AUTO_MILES_PER_YEAR
          /\ (w1.miles[i] # w.miles[i] /\ w1.miles[i] = 0) => w1.auto_miles[i]]_vars

\* C27: in every reachable state each submission that is not pending has a
\* review-log row that references it, whose action maps to its state and
\* whose reviewer is its reviewed_by, also when a fault has interrupted a
\* review between its steps; a pending submission has no reviewer field set.
C27_FinalizedHasLogRow ==
  \A id \in DOMAIN template_submissions :
    LET row == template_submissions[id]
    IN IF row.manager_state = "pending"
         THEN /\ row.reviewed_by = NullText
              /\ row.reviewed_at = NoTime
              /\ row.review_action = Null
              /\ row.review_notes = Null
         ELSE \E k \in LogOf(id) :
                /\ TargetOf(template_reviews[k].action) = row.manager_state
                /\ template_reviews[k].reviewed_by = row.reviewed_by

\* after a fault, a finalized submission whose log also holds the row of a
\* review that did not decide its state
C27_Witness ==
  /\ faults > 0
  /\ AllIdle
  /\ \E id \in DOMAIN template_submissions :
       /\ template_submissions[id].manager_state \in Terminal
       /\ \E k \in LogOf(id) :
            TargetOf(template_reviews[k].action) # template_submissions[id].manager_state

====
